---- MODULE Spec2Model ----
(***************************************************************************)
(* Model of the two ingestion jobs of GTARP.PlayerCountTracker:            *)
(*   api2db/python/twitch_stream_ingest.py  (main and its helpers)         *)
(*   api2db/python/api_ingest.py            (handler.do_GET)               *)
(* Python strings the code inspects (titles, the keyword, response bodies) *)
(* are sequences of one-character strings; opaque strings (names, tokens,  *)
(* cursors) are TLA+ strings.  A JSON object is a record that holds the    *)
(* keys present in it.                                                     *)
(***************************************************************************)
EXTENDS Integers, Sequences, FiniteSets, TLC

VARIABLES
    environ,        \* os.environ as read by load_environment_variables
    pc,             \* position of main(): start, token, game, streams, insert, done
    outcome,        \* how main() ended: running, completed, no_game_id, or the exception logged at line 156
    token,          \* main: token
    game_id,        \* main: game_id
    cursor,         \* get_streams: cursor
    params_after,   \* get_streams: params["after"] (None while the key is not set)
    streams,        \* get_streams: streams, then the list main passes on
    idx,            \* log_to_supabase: position of the for loop in streams (1-based)
    table,          \* rows of the twitch_streams table written by this run
    calls,          \* history: the network calls issued, in order
    pages,          \* history: the responses received by get_streams, in order
    passed,         \* history: the argument of the log_to_supabase call
    failedAt,       \* history: index of the insert that raised, 0 when none did
    clock,          \* api_ingest: the UTC clock, one tick per datetime.utcnow() call
    player_counts,  \* api_ingest: rows of the player_counts table
    http_status,    \* api_ingest: status of the last send_response, 0 before any
    http_body,      \* api_ingest: what the last do_GET wrote to wfile
    upstream,       \* history: the last answer of the server-info endpoint
    db_ok           \* history: whether the database accepted inserts during the last do_GET

streamVars == <<environ, pc, outcome, token, game_id, cursor, params_after,
                streams, idx, table, calls, pages, passed, failedAt>>

playerVars == <<clock, player_counts, http_status, http_body, upstream, db_ok>>

vars == <<streamVars, playerVars>>

-----------------------------------------------------------------------------
(* Bounds of the model *)

MaxPages == 2       \* page responses recorded per run
MaxEntries == 1     \* entries per streams page
MaxRows == 2        \* matches accumulated in a run whose pages are not recorded
MaxClock == 4       \* datetime.utcnow() calls
MaxPlayers == 2     \* largest selfReportedClients value

-----------------------------------------------------------------------------
(* Python values *)

None == "<None>"

\* `not value` for a str-or-None value
Falsy(v) == v = None \/ v = ""

\* dict.get(key, default)
Get(d, key, default) == IF key \in DOMAIN d THEN d[key] ELSE default

EmptyDict == [k \in {} |-> ""]

UpperToLower ==
    [E |-> "e", U |-> "u", R |-> "r", P |-> "p", S |-> "s", N |-> "n",
     C |-> "c", I |-> "i", T |-> "t", D |-> "d", A |-> "a"]

\* str.lower()
Lower(s) ==
    [i \in 1..Len(s) |-> IF s[i] \in DOMAIN UpperToLower THEN UpperToLower[s[i]] ELSE s[i]]

\* `needle in hay` for strings
Contains(needle, hay) ==
    \E i \in 1..(Len(hay) - Len(needle) + 1) :
        SubSeq(hay, i, i + Len(needle) - 1) = needle

-----------------------------------------------------------------------------
(* HTTP: what requests.get / requests.post hand back.  exc = TRUE is a      *)
(* failure below HTTP (connection error, timeout): no response exists.     *)

HttpResponse(status, json) == [exc |-> FALSE, status |-> status, json |-> json]

ConnectionError == [exc |-> TRUE, status |-> 0, json |-> EmptyDict]

\* requests.get(...) followed by response.raise_for_status(): a
\* requests.RequestException is raised
RaisesRequestException(resp) ==
    resp.exc \/ (resp.status >= 400 /\ resp.status < 600)

-----------------------------------------------------------------------------
(* load_environment_variables *)

RequiredVars == <<"TWITCH_CLIENT_ID", "TWITCH_CLIENT_SECRET", "SUPABASE_URL", "SUPABASE_KEY">>

EnvValues == {None, "", "set"}

\* (mutation) line 24 as `if value is None`
FirstMissingNoneOnly(env) ==
    LET missing == {i \in 1..Len(RequiredVars) : env[RequiredVars[i]] = None}
    IN  IF missing = {} THEN 0
        ELSE CHOOSE i \in missing : \A j \in missing : i <= j

\* the loop over required_vars.items(): index of the first variable whose
\* value is falsy, 0 when every one is set
FirstMissing(env) ==
    LET missing == {i \in 1..Len(RequiredVars) : Falsy(env[RequiredVars[i]])}
    IN  IF missing = {} THEN 0
        ELSE CHOOSE i \in missing : \A j \in missing : i <= j

-----------------------------------------------------------------------------
(* get_twitch_oauth_token *)

TokenResponses ==
    { ConnectionError,
      HttpResponse(200, [access_token |-> "tok", expires_in |-> "5011271"]),
      HttpResponse(200, [expires_in |-> "5011271"]),
      HttpResponse(401, [message |-> "invalid client"]),
      HttpResponse(503, [message |-> "unavailable"]) }

\* (mutation) the except clause logs and returns None instead of re-raising
get_twitch_oauth_token_swallowed(resp) ==
    IF RaisesRequestException(resp)
    THEN [raised |-> FALSE, value |-> None]
    ELSE [raised |-> FALSE, value |-> Get(resp.json, "access_token", None)]

\* [raised, value]: the exception is logged and re-raised (lines 41-43)
get_twitch_oauth_token(resp) ==
    IF RaisesRequestException(resp)
    THEN [raised |-> TRUE, value |-> None]
    ELSE [raised |-> FALSE, value |-> Get(resp.json, "access_token", None)]

-----------------------------------------------------------------------------
(* get_game_id *)

GameResponses ==
    { ConnectionError,
      HttpResponse(401, [message |-> "invalid token"]),
      HttpResponse(200, [data |-> << >>]),
      HttpResponse(200, EmptyDict),
      HttpResponse(200, [data |-> << [id |-> "32982", name |-> "Grand Theft Auto V"] >>]),
      HttpResponse(200, [data |-> << [id |-> "", name |-> "Grand Theft Auto V"] >>]),
      HttpResponse(200, [data |-> << [name |-> "Grand Theft Auto V"] >>]) }

\* [raised, value]: a RequestException is swallowed into None (lines 62-64);
\* games[0]["id"] on an entry without "id" is a KeyError, which is not caught here
get_game_id(resp) ==
    IF RaisesRequestException(resp)
    THEN [raised |-> FALSE, value |-> None]
    ELSE LET games == Get(resp.json, "data", << >>)
         IN  IF games # << >>
             THEN IF "id" \in DOMAIN games[1]
                  THEN [raised |-> FALSE, value |-> games[1].id]
                  ELSE [raised |-> TRUE, value |-> None]
             ELSE [raised |-> FALSE, value |-> None]

-----------------------------------------------------------------------------
(* get_streams *)

Keyword == <<"u", "n", "s", "c", "r", "i", "p", "t", "e", "d">>

Entries ==
    { [title |-> <<"E", "p", "i", "c", " ", "U", "n", "s", "c", "r", "i", "p", "t", "e", "d", " ", "R", "P">>,
       user_name |-> "Alice", viewer_count |-> 42],
      [title |-> <<"S", "c", "r", "i", "p", "t", "e", "d", " ", "o", "n", "l", "y">>,
       user_name |-> "Bob", viewer_count |-> 5],
      [title |-> <<"U", "N", "S", "C", "R", "I", "P", "T", "E", "D", " ", "n", "i", "g", "h", "t", "s">>,
       user_name |-> "Carol", viewer_count |-> 7],
      [user_name |-> "Dave", viewer_count |-> 3],
      [title |-> <<"u", "n", "s", "c", "r", "i", "p", "t", "e", "d">>, viewer_count |-> 9] }

PageLists == UNION {[1..n -> Entries] : n \in 0..MaxEntries}

Paginations == {EmptyDict, [cursor |-> ""], [cursor |-> "c1"], [cursor |-> "c2"]}

StreamResponses ==
    { ConnectionError, HttpResponse(503, [message |-> "unavailable"]) }
    \cup { HttpResponse(200, [data |-> d, pagination |-> p]) : d \in PageLists, p \in Paginations }
    \cup { HttpResponse(200, [data |-> d]) : d \in PageLists }
    \cup { HttpResponse(200, EmptyDict), HttpResponse(200, [pagination |-> [cursor |-> "c1"]]) }

\* the dict appended at lines 89-95
StreamRecord(stream) ==
    [streamer_name |-> stream.user_name,
     stream_title  |-> stream.title,
     viewer_count  |-> stream.viewer_count,
     game_name     |-> "Grand Theft Auto V",
     serverId      |-> "o3re8y"]

\* line 88: keyword.lower() in stream["title"].lower()
TitleMatches(keyword, stream) == Contains(Lower(keyword), Lower(stream.title))

\* (mutation) line 88 reading the title as stream.get("title", "")
RECURSIVE FilterFromDefaulted(_, _, _, _)
FilterFromDefaulted(entries, i, keyword, acc) ==
    IF i > Len(entries) THEN [raised |-> FALSE, streams |-> acc]
    ELSE LET stream == entries[i]
         IN  IF "title" \notin DOMAIN stream
             THEN FilterFromDefaulted(entries, i + 1, keyword, acc)
             ELSE IF TitleMatches(keyword, stream)
                  THEN IF {"user_name", "viewer_count"} \subseteq DOMAIN stream
                       THEN FilterFromDefaulted(entries, i + 1, keyword, Append(acc, StreamRecord(stream)))
                       ELSE [raised |-> TRUE, streams |-> acc]
                  ELSE FilterFromDefaulted(entries, i + 1, keyword, acc)

\* the for loop of lines 87-95 from entry i on, acc being `streams`:
\* [raised, streams], raised when a subscript hits a missing key (KeyError)
RECURSIVE FilterFrom(_, _, _, _)
FilterFrom(entries, i, keyword, acc) ==
    IF i > Len(entries) THEN [raised |-> FALSE, streams |-> acc]
    ELSE LET stream == entries[i]
         IN  IF "title" \notin DOMAIN stream
             THEN [raised |-> TRUE, streams |-> acc]
             ELSE IF TitleMatches(keyword, stream)
                  THEN IF {"user_name", "viewer_count"} \subseteq DOMAIN stream
                       THEN FilterFrom(entries, i + 1, keyword, Append(acc, StreamRecord(stream)))
                       ELSE [raised |-> TRUE, streams |-> acc]
                  ELSE FilterFrom(entries, i + 1, keyword, acc)

\* line 96: data.get("pagination", {}).get("cursor")
NextCursor(json) == Get(Get(json, "pagination", EmptyDict), "cursor", None)

\* (mutation) line 97 as `if cursor is None`
LoopContinuesUnlessNone(c) == c # None

\* lines 97-98 negated: the loop goes on to another request
LoopContinues(c) == ~Falsy(c)

\* lines 81-82: the "after" parameter the next request carries
AfterParam(c, after) == IF ~Falsy(c) THEN c ELSE after

\* (mutation) the except clause returning an empty list
StreamsDroppedOnError(acc) == << >>

\* lines 100-104: the list get_streams returns when a RequestException makes
\* it leave the loop
StreamsOnError(acc) == acc

-----------------------------------------------------------------------------
(* log_to_supabase *)

\* the dict built at lines 114-120
InsertData(stream) ==
    [streamer_name |-> stream.streamer_name,
     stream_title  |-> stream.stream_title,
     viewer_count  |-> stream.viewer_count,
     game_name     |-> stream.game_name,
     serverId      |-> stream.serverId]

-----------------------------------------------------------------------------
(* main of twitch_stream_ingest.py, one action per step that reaches outside *)

\* a logged call: the operation, the "after" parameter sent (streams only),
\* and what came back
Call(op, after, resp) == [op |-> op, after |-> after, resp |-> resp]

\* what supabase...insert(data).execute() comes to: it returns, or it raises
InsertOutcome(ok) == [exc |-> ~ok, status |-> 0, json |-> EmptyDict]

AllSet == [v \in {RequiredVars[i] : i \in 1..Len(RequiredVars)} |-> "set"]

StreamInit ==
    /\ environ \in [{RequiredVars[i] : i \in 1..Len(RequiredVars)} -> EnvValues]
    /\ pc = "start"
    /\ outcome = "running"
    /\ token = None
    /\ game_id = None
    /\ cursor = None
    /\ params_after = None
    /\ streams = << >>
    /\ idx = 0
    /\ table = << >>
    /\ calls = << >>
    /\ pages = << >>
    /\ passed = [called |-> FALSE, rows |-> << >>]
    /\ failedAt = 0

\* lines 128-137: a missing value raises ValueError, caught at line 155
LoadEnvironment ==
    /\ pc = "start"
    /\ IF FirstMissing(environ) # 0
       THEN pc' = "done" /\ outcome' = "ValueError"
       ELSE pc' = "token" /\ outcome' = outcome
    /\ UNCHANGED <<environ, token, game_id, cursor, params_after, streams, idx,
                   table, calls, pages, passed, failedAt>>
    /\ UNCHANGED playerVars

\* line 140
GetToken ==
    /\ pc = "token"
    /\ \E resp \in TokenResponses :
        LET r == get_twitch_oauth_token(resp)
        IN  /\ calls' = Append(calls, Call("token", None, resp))
            /\ IF r.raised
               THEN pc' = "done" /\ outcome' = "RequestException" /\ token' = token
               ELSE pc' = "game" /\ outcome' = outcome /\ token' = r.value
    /\ UNCHANGED <<environ, game_id, cursor, params_after, streams, idx,
                   table, pages, passed, failedAt>>
    /\ UNCHANGED playerVars

\* (mutation) line 144 as `if game_id is None`
NoGameIdNoneOnly(g) == g = None

\* line 144: not game_id
NoGameId(g) == Falsy(g)

\* lines 143-146
GetGameId ==
    /\ pc = "game"
    /\ \E resp \in GameResponses :
        LET r == get_game_id(resp)
        IN  /\ calls' = Append(calls, Call("games", None, resp))
            /\ IF r.raised
               THEN pc' = "done" /\ outcome' = "KeyError" /\ game_id' = game_id
               ELSE /\ game_id' = r.value
                    /\ IF NoGameId(r.value)
                       THEN pc' = "done" /\ outcome' = "no_game_id"
                       ELSE pc' = "streams" /\ outcome' = outcome
    /\ UNCHANGED <<environ, token, cursor, params_after, streams, idx,
                   table, pages, passed, failedAt>>
    /\ UNCHANGED playerVars

\* get_streams returns `result` to main (lines 104, 149-153), which hands it to
\* log_to_supabase; an empty list ends the run there (lines 108-110)
ReturnStreams(result) ==
    /\ streams' = result
    /\ passed' = [called |-> TRUE, rows |-> result]
    /\ outcome' = IF result = << >> THEN "completed" ELSE outcome
    /\ pc' = IF result = << >> THEN "done" ELSE "insert"
    /\ idx' = IF result = << >> THEN idx ELSE 1

\* one iteration of the while loop of get_streams (lines 80-102) on response resp
GetStreamsIteration(resp) ==
    /\ params_after' = AfterParam(cursor, params_after)
    /\ IF RaisesRequestException(resp)
       THEN /\ cursor' = cursor
            /\ ReturnStreams(StreamsOnError(streams))
       ELSE LET f == FilterFrom(Get(resp.json, "data", << >>), 1, Keyword, streams)
                c == NextCursor(resp.json)
            IN  IF f.raised
                THEN /\ pc' = "done"
                     /\ outcome' = "KeyError"
                     /\ streams' = f.streams
                     /\ UNCHANGED <<cursor, idx, passed>>
                ELSE /\ cursor' = c
                     /\ IF LoopContinues(c)
                        THEN /\ streams' = f.streams
                             /\ UNCHANGED <<pc, outcome, idx, passed>>
                        ELSE ReturnStreams(f.streams)

\* a loop iteration, the request and its response recorded
GetStreamsPage ==
    /\ pc = "streams"
    /\ Len(pages) < MaxPages
    /\ \E resp \in StreamResponses :
        /\ GetStreamsIteration(resp)
        /\ calls' = Append(calls, Call("streams", params_after', resp))
        /\ pages' = Append(pages, resp)
    /\ UNCHANGED <<environ, token, game_id, table, failedAt>>
    /\ UNCHANGED playerVars

\* the same loop iteration with nothing recorded, so that a run of any number
\* of pages stays within a finite state space; the endpoint serves at most
\* MaxRows matches in all
GetStreamsPageUnrecorded ==
    /\ pc = "streams"
    /\ \E resp \in StreamResponses :
        /\ GetStreamsIteration(resp)
        /\ Len(streams') <= MaxRows
    /\ UNCHANGED <<environ, token, game_id, table, failedAt, calls, pages>>
    /\ UNCHANGED playerVars

\* (mutation) the except clause deleting what the run inserted
TableClearedOnInsertError(rows) == << >>

\* lines 123-124: the except clause only logs; the table keeps what it holds
TableOnInsertError(rows) == rows

\* one iteration of the for loop of log_to_supabase (lines 113-121); an insert
\* that raises ends the function in the except clause of lines 123-124
InsertRow ==
    /\ pc = "insert"
    /\ \E ok \in BOOLEAN :
        /\ calls' = Append(calls, Call("insert", None, InsertOutcome(ok)))
        /\ IF ok
           THEN /\ table' = Append(table, InsertData(streams[idx]))
                /\ failedAt' = failedAt
                /\ IF idx = Len(streams)
                   THEN pc' = "done" /\ outcome' = "completed" /\ idx' = idx
                   ELSE pc' = pc /\ outcome' = outcome /\ idx' = idx + 1
           ELSE /\ table' = TableOnInsertError(table)
                /\ failedAt' = idx
                /\ pc' = "done" /\ outcome' = "completed" /\ idx' = idx
    /\ UNCHANGED <<environ, token, game_id, cursor, params_after, streams, pages, passed>>
    /\ UNCHANGED playerVars

-----------------------------------------------------------------------------
(* api_ingest.py: handler.do_GET *)

\* JSON values that may be null are tagged
JNull == [type |-> "null"]
JObject(members) == [type |-> "object", members |-> members]

PlayerBodies ==
    { EmptyDict, [Data |-> JNull], [Data |-> JObject(EmptyDict)],
      [Data |-> JObject([hostname |-> "unscripted"])] }
    \cup { [Data |-> JObject([selfReportedClients |-> n])] : n \in 0..MaxPlayers }

PlayerResponses ==
    { ConnectionError,
      HttpResponse(404, [error |-> "not found"]),
      HttpResponse(503, [error |-> "unavailable"]) }
    \cup { HttpResponse(200, b) : b \in PlayerBodies }

DigitChars == <<"0", "1", "2", "3", "4", "5", "6", "7", "8", "9">>

\* str(n) for an int n >= 0
RECURSIVE Str(_)
Str(n) == IF n < 10 THEN <<DigitChars[n + 1]>>
          ELSE Str(n \div 10) \o <<DigitChars[(n % 10) + 1]>>

\* datetime.isoformat() of the instant of clock tick t
IsoFormat(t) == <<"T">> \o Str(t)

\* line 35: data.get("Data", {}).get("selfReportedClients", 0); [raised, value],
\* raised when .get is called on None (AttributeError)
ExtractPlayerCount(json) ==
    LET d == Get(json, "Data", JObject(EmptyDict))
    IN  IF d.type = "null"
        THEN [raised |-> TRUE, value |-> 0]
        ELSE [raised |-> FALSE, value |-> Get(d.members, "selfReportedClients", 0)]

\* line 54
SuccessBody(timestamp, current_players) ==
    <<"[">> \o timestamp
    \o <<"]", " ", "S", "u", "c", "c", "e", "s", "s", "f", "u", "l", "l", "y", " ", "s", "a", "v", "e", "d", " ", "p", "l", "a", "y", "e", "r", " ", "c", "o", "u", "n", "t", ":", " ">>
    \o Str(current_players)

\* line 60
RequestErrorBody(timestamp, e) ==
    <<"[">> \o timestamp
    \o <<"]", " ", "A", "P", "I", " ", "r", "e", "q", "u", "e", "s", "t", " ", "e", "r", "r", "o", "r", ":", " ">>
    \o e

\* line 65
UnexpectedErrorBody(timestamp, e) ==
    <<"[">> \o timestamp
    \o <<"]", " ", "U", "n", "e", "x", "p", "e", "c", "t", "e", "d", " ", "e", "r", "r", "o", "r", ":", " ">>
    \o e

\* str(e) of the exceptions do_GET meets
StrHTTPError(status) == Str(status) \o <<" ", "E", "r", "r", "o", "r">>
StrConnectionError == <<"r", "e", "f", "u", "s", "e", "d">>
StrAttributeError == <<"N", "o", "n", "e", "T", "y", "p", "e">>
StrInsertError == <<"i", "n", "s", "e", "r", "t">>

\* lines 41-45
PlayerCountRecord(timestamp, current_players) ==
    [timestamp |-> timestamp, player_count |-> current_players, server_id |-> "o3re8y"]

PlayerInit ==
    /\ clock = 0
    /\ player_counts = << >>
    /\ http_status = 0
    /\ http_body = << >>
    /\ upstream = ConnectionError
    /\ db_ok = TRUE

\* one do_GET (lines 16-65) on the endpoint's answer resp, the database
\* accepting the insert or not
do_GET ==
    /\ clock + 2 <= MaxClock
    /\ \E resp \in PlayerResponses, ok \in BOOLEAN :
        /\ upstream' = resp
        /\ db_ok' = ok
        /\ IF RaisesRequestException(resp)
           THEN /\ clock' = clock + 1
                /\ http_status' = 500
                /\ http_body' = RequestErrorBody(IsoFormat(clock'),
                                    IF resp.exc THEN StrConnectionError ELSE StrHTTPError(resp.status))
                /\ player_counts' = player_counts
           ELSE LET x == ExtractPlayerCount(resp.json)
                IN  IF x.raised
                    THEN /\ clock' = clock + 1
                         /\ http_status' = 500
                         /\ http_body' = UnexpectedErrorBody(IsoFormat(clock'), StrAttributeError)
                         /\ player_counts' = player_counts
                    ELSE IF ok
                         THEN /\ clock' = clock + 1
                              /\ player_counts' = Append(player_counts,
                                     PlayerCountRecord(IsoFormat(clock'), x.value))
                              /\ http_status' = 200
                              /\ http_body' = SuccessBody(IsoFormat(clock'), x.value)
                         ELSE /\ clock' = clock + 2
                              /\ http_status' = 500
                              /\ http_body' = UnexpectedErrorBody(IsoFormat(clock'), StrInsertError)
                              /\ player_counts' = player_counts
    /\ UNCHANGED streamVars

-----------------------------------------------------------------------------
(* Specifications *)

Init == StreamInit /\ PlayerInit

\* one run of the stream-ingest job
Next ==
    \/ LoadEnvironment
    \/ GetToken
    \/ GetGameId
    \/ GetStreamsPage
    \/ InsertRow

Spec == Init /\ [][Next]_vars

\* one run of the stream-ingest job against an endpoint that may serve any
\* number of pages; the process is sequential and always takes its next step
LiveNext ==
    \/ LoadEnvironment
    \/ GetToken
    \/ GetGameId
    \/ GetStreamsPageUnrecorded
    \/ InsertRow

LiveSpec == Init /\ [][LiveNext]_vars /\ WF_vars(LiveNext)

\* successive invocations of the player-count handler
PlayerSpecInit == StreamInit /\ environ = AllSet /\ PlayerInit

PlayerNext == do_GET

PlayerSpec == PlayerSpecInit /\ [][PlayerNext]_vars

-----------------------------------------------------------------------------
(* Notions the properties are stated in, read off the recorded history *)

\* the request failed in transport: no response, or a status outside 2xx
TransportError(r) == r.exc \/ r.status < 200 \/ r.status > 299

\* the cursor a page response carries, None when it carries none
CursorOf(r) ==
    IF "pagination" \in DOMAIN r.json /\ "cursor" \in DOMAIN r.json.pagination
    THEN r.json.pagination.cursor
    ELSE None

EntriesOf(r) == IF "data" \in DOMAIN r.json THEN r.json.data ELSE << >>

HasKeyword(e) == Contains(Keyword, Lower(e.title))

\* every entry of the page has the fields the filter reads from it
WellShaped(r) ==
    \A i \in 1..Len(EntriesOf(r)) :
        LET e == EntriesOf(r)[i]
        IN  /\ "title" \in DOMAIN e
            /\ HasKeyword(e) => {"user_name", "viewer_count"} \subseteq DOMAIN e

SuccessfulPage(r) == ~TransportError(r) /\ WellShaped(r)

LacksTitle(r) == \E i \in 1..Len(EntriesOf(r)) : "title" \notin DOMAIN EntriesOf(r)[i]

StreamCalls == SelectSeq(calls, LAMBDA c : c.op = "streams")

RECURSIVE AllEntries(_)
AllEntries(ps) ==
    IF ps = << >> THEN << >>
    ELSE AllEntries(SubSeq(ps, 1, Len(ps) - 1)) \o EntriesOf(ps[Len(ps)])

\* the rows the keyword matches of a sequence of pages amount to
ExpectedRows(ps) ==
    LET hits == SelectSeq(AllEntries(ps), HasKeyword)
    IN  [i \in 1..Len(hits) |->
            [streamer_name |-> hits[i].user_name, stream_title |-> hits[i].title,
             viewer_count |-> hits[i].viewer_count, game_name |-> "Grand Theft Auto V",
             serverId |-> "o3re8y"]]

IsPrefix(a, b) == Len(a) <= Len(b) /\ a = SubSeq(b, 1, Len(a))

NoInsertFailed == \A i \in 1..Len(calls) : calls[i].op = "insert" => ~calls[i].resp.exc

-----------------------------------------------------------------------------
(* Properties of the stream-ingest run (Spec) *)

\* C1: every page request is answered before the next is made, and for every
\* successful page response (2xx, every entry carrying the fields the filter
\* reads): if it carries a non-empty cursor, one further page request follows
\* and sends that cursor as "after"; if its cursor is absent or empty, it is
\* the last response and the loop is left.
PaginationFollowsCursor ==
    /\ Len(StreamCalls) = Len(pages)
    /\ \A k \in 1..Len(pages) :
        SuccessfulPage(pages[k]) =>
            IF CursorOf(pages[k]) \notin {None, ""}
            THEN IF k < Len(pages)
                 THEN StreamCalls[k + 1].after = CursorOf(pages[k])
                 ELSE pc = "streams" /\ cursor = CursorOf(pages[k])
            ELSE k = Len(pages) /\ pc # "streams"

PaginationFollowsCursorWitness ==
    /\ Len(pages) = 2
    /\ SuccessfulPage(pages[1]) /\ CursorOf(pages[1]) = "c2"
    /\ StreamCalls[1].after = None /\ StreamCalls[2].after = "c2"
    /\ SuccessfulPage(pages[2]) /\ CursorOf(pages[2]) = ""
    /\ pc = "done"

\* C2: when the request for page k fails in transport, page k is the last
\* page requested (no later page, no retry), the rows handed to
\* log_to_supabase are exactly the keyword matches of pages 1..k-1, the table
\* holds a prefix of them at every moment, and all of them once the run has
\* ended without a failing insert.
TransportErrorKeepsPartial ==
    \A k \in 1..Len(pages) :
        TransportError(pages[k]) =>
            /\ k = Len(pages)
            /\ Len(StreamCalls) = k
            /\ pc \in {"insert", "done"}
            /\ passed.called
            /\ passed.rows = ExpectedRows(SubSeq(pages, 1, k - 1))
            /\ IsPrefix(table, passed.rows)
            /\ (pc = "done" /\ NoInsertFailed) => table = passed.rows

TransportErrorKeepsPartialWitness ==
    /\ Len(pages) = 2
    /\ ~TransportError(pages[1])
    /\ TransportError(pages[2])
    /\ pc = "done"
    /\ table # << >>
    /\ table = ExpectedRows(<<pages[1]>>)

NoIdentifier(r) ==
    \/ TransportError(r)
    \/ "data" \notin DOMAIN r.json
    \/ r.json.data = << >>
    \/ ("id" \in DOMAIN r.json.data[1] /\ r.json.data[1].id = "")

\* C3: when the games lookup yields no identifier (transport error, empty or
\* absent list, empty id), it is the last call of the run: no streams
\* request is issued and no row is inserted.
NoGameNoStreams ==
    \A i \in 1..Len(calls) :
        (calls[i].op = "games" /\ NoIdentifier(calls[i].resp)) =>
            /\ i = Len(calls)
            /\ pc = "done"
            /\ StreamCalls = << >>
            /\ table = << >>

NoGameNoStreamsWitness ==
    /\ pc = "done"
    /\ Len(calls) = 2
    /\ calls[2].op = "games"
    /\ ~TransportError(calls[2].resp)
    /\ "data" \in DOMAIN calls[2].resp.json
    /\ calls[2].resp.json.data = << >>

\* C4: for each required variable, if it is absent or empty the run never
\* makes a network call (no token request, no lookup, no streams request, no
\* insert) and once started it ends at once.
MissingConfigNoNetwork ==
    \A i \in 1..Len(RequiredVars) :
        environ[RequiredVars[i]] \in {None, ""} =>
            /\ calls = << >>
            /\ table = << >>
            /\ pc \in {"start", "done"}

MissingConfigNoNetworkWitness ==
    /\ pc = "done"
    /\ outcome = "ValueError"
    /\ environ = [AllSet EXCEPT !["SUPABASE_KEY"] = ""]

\* C6: when the token request fails (no response, or a non-2xx status), it is
\* the last call of the run: no games lookup, no streams request, no insert.
TokenFailureAborts ==
    \A i \in 1..Len(calls) :
        (calls[i].op = "token" /\ TransportError(calls[i].resp)) =>
            /\ i = Len(calls)
            /\ pc = "done"
            /\ table = << >>

TokenFailureAbortsWitness ==
    /\ pc = "done"
    /\ Len(calls) = 1
    /\ calls[1].op = "token"
    /\ ~calls[1].resp.exc /\ calls[1].resp.status = 401

\* C8: once log_to_supabase has a non-empty list, the table holds at every
\* moment a prefix, in order, of that list, one row per insert that returned;
\* a failing i-th insert ends the run as completed (not as an error of main)
\* with the i-1 earlier rows in place; without a failing insert the run ends
\* with every matched stream inserted.
InsertFailureKeepsPrefix ==
    (passed.called /\ passed.rows # << >>) =>
        /\ IsPrefix(table, passed.rows)
        /\ failedAt # 0 =>
            /\ Len(table) = failedAt - 1
            /\ pc = "done"
            /\ outcome = "completed"
        /\ (pc = "done" /\ failedAt = 0) => table = passed.rows
        /\ (pc = "insert") => Len(table) = idx - 1

InsertFailureKeepsPrefixWitness ==
    /\ pc = "done"
    /\ outcome = "completed"
    /\ Len(passed.rows) = 2
    /\ failedAt = 2
    /\ Len(table) = 1
    /\ table[1] = passed.rows[1]

\* C10: when an entry of a 2xx page lacks "title", the page is the last one
\* requested, get_streams does not return (nothing is handed to
\* log_to_supabase), the run ends in main's except clause and no row is
\* inserted, whatever the earlier pages matched.
MissingTitleInsertsNothing ==
    \A k \in 1..Len(pages) :
        (~TransportError(pages[k]) /\ LacksTitle(pages[k])) =>
            /\ k = Len(pages)
            /\ pc = "done"
            /\ outcome = "KeyError"
            /\ ~passed.called
            /\ table = << >>

MissingTitleInsertsNothingWitness ==
    /\ Len(pages) = 2
    /\ ExpectedRows(<<pages[1]>>) # << >>
    /\ streams # << >>
    /\ ~TransportError(pages[2]) /\ LacksTitle(pages[2])
    /\ pc = "done"
    /\ table = << >>

-----------------------------------------------------------------------------
(* Properties of the stream-ingest run on an unbounded listing (LiveSpec) *)

\* C9: every stream-ingest run eventually ends, whatever the streams
\* endpoint answers.
RunTerminates == <>(pc = "done")

-----------------------------------------------------------------------------
(* Properties of the player-count handler (PlayerSpec) *)

Invoked == http_status # 0

\* the value at Data.selfReportedClients, 0 when absent at any level
SelfReportedClients(json) ==
    IF /\ "Data" \in DOMAIN json
       /\ json.Data.type = "object"
       /\ "selfReportedClients" \in DOMAIN json.Data.members
    THEN json.Data.members.selfReportedClients
    ELSE 0

EndsWith(body, tail) ==
    Len(body) >= Len(tail) /\ SubSeq(body, Len(body) - Len(tail) + 1, Len(body)) = tail

HasTimestamp(body) == \E t \in 1..clock : Contains(<<"[">> \o IsoFormat(t) \o <<"]">>, body)

\* C5: a do_GET whose upstream answer is not 2xx responds 500 with a body
\* holding "error" and a timestamp; a do_GET whose upstream answer is 2xx
\* (the database accepting the insert) responds 200 with a body holding the
\* player count.
StatusFollowsUpstream ==
    Invoked =>
        /\ TransportError(upstream) =>
            /\ http_status = 500
            /\ Contains(<<"e", "r", "r", "o", "r">>, http_body)
            /\ HasTimestamp(http_body)
        /\ (~TransportError(upstream) /\ db_ok) =>
            /\ http_status = 200
            /\ EndsWith(http_body, Str(SelfReportedClients(upstream.json)))

\* C7: a do_GET whose upstream answer is a 2xx JSON body (the database
\* accepting the insert) writes a row whose player_count is the value at
\* Data.selfReportedClients, 0 when the field is absent at any level.
PlayerCountExtracted ==
    (Invoked /\ ~TransportError(upstream) /\ db_ok) =>
        /\ player_counts # << >>
        /\ player_counts[Len(player_counts)].timestamp = IsoFormat(clock)
        /\ player_counts[Len(player_counts)].player_count = SelfReportedClients(upstream.json)

====
